---- MODULE Spec2Model ----
(***************************************************************************)
(* Model of the Cherry Servers `sshkey` Ansible module                     *)
(* (plugins/modules/sshkey.py).  One invocation of run_module is three     *)
(* steps: the AnsibleModule is constructed from the declared parameters,   *)
(* the lookup common.find_resource_unique runs, and one branch of the      *)
(* state dispatch (create_key, update_key, delete_key or a plain           *)
(* exit_json) ends the invocation.  The provider's key collection is the   *)
(* only state that outlives an invocation; a playbook applies the same     *)
(* task up to MaxRuns times, in check mode or not.                         *)
(*                                                                         *)
(* SpecRM exercises one call of a ResourceManager operation                *)
(* (module_utils/resource_managers/resource_manager.py), SpecDiff one call *)
(* of check_param_state_diff, and FairSpec a single invocation of          *)
(* run_module under the fairness its synchronous execution gives.          *)
(***************************************************************************)
EXTENDS Integers, Sequences, FiniteSets, TLC

VARIABLES
    remote,      \* the provider's SSH keys (a set of key records)
    params,      \* module.params of the current invocation
    check_mode,  \* module.check_mode of the current invocation
    pc,          \* position of the invocation inside run_module
    key,         \* the local `key` of run_module (result of the lookup)
    lookup,      \* how the lookup ended: pending, none, one, ambiguous, error
    requests,    \* requests sent through api_client.send_request, in order
    result,      \* what exit_json / fail_json reported
    runs,        \* number of invocations started so far
    remote0,     \* the provider's keys when the current invocation started
    prev,        \* the finished previous invocation (history)
    rm,          \* one call of a ResourceManager operation
    diff         \* one call of check_param_state_diff

module_vars ==
    <<remote, params, check_mode, pc, key, lookup, requests, result, runs,
      remote0, prev>>

vars == <<module_vars, rm, diff>>

----------------------------------------------------------------------------
(* Bounds of the exploration. *)

MaxId == 2      \* key ids the provider hands out: 1..MaxId
MaxRuns == 2    \* invocations of the module in one behaviour

Ids == 1..MaxId
Labels == {"k1", "k2"}
PublicKeys == {"ssh-a", "ssh-b"}

(* Python's None and a supplied value of an optional parameter. *)
None == << >>
Some(v) == <<v>>

(* The provider derives the fingerprint from the key material. *)
FingerprintOf(k) == IF k = "ssh-a" THEN "fp-a" ELSE "fp-b"
Fingerprints == {FingerprintOf(k) : k \in PublicKeys}

(* A provider-side SSH key, with the fields listed in RETURN. *)
KeyRecord(i, l, k) ==
    [id |-> i, label |-> l, key |-> k, fingerprint |-> FingerprintOf(k),
     href |-> <<"/ssh-keys/", i>>, created |-> "t0", updated |-> "t0"]

KeyRecords == {KeyRecord(i, l, k) : i \in Ids, l \in Labels, k \in PublicKeys}

(* Key collections the provider can hold: ids are unique. *)
RemoteSets ==
    {S \in SUBSET KeyRecords : \A a \in S, b \in S : a.id = b.id => a = b}

Opt(S) == {None} \cup {Some(v) : v \in S}

(* get_module_args: the argument specification. *)
get_module_args ==
    [state : {"present", "absent"},
     label : Opt(Labels),
     public_key : Opt(PublicKeys),
     id : Opt(Ids),
     fingerprint : Opt(Fingerprints)]

NoResult == [status |-> "none", changed |-> FALSE, record |-> None,
             msg |-> None]

NoKey == None

----------------------------------------------------------------------------
(* Requests and the provider. *)

(* One send_request call and the (status, body) it was answered with. *)
Request(method, path, kwargs, status, body) ==
    [method |-> method, path |-> path, kwargs |-> kwargs, status |-> status,
     body |-> body]

MutatingMethods == {"POST", "PUT", "DELETE"}

Mutating(reqs) == {i \in 1..Len(reqs) : reqs[i].method \in MutatingMethods}
Lookups(reqs) == {i \in 1..Len(reqs) : reqs[i].method = "GET"}

(* Status codes the provider answers a write with. *)
WriteStatuses == {200, 201, 204, 500}
SuccessClass == {200, 201, 204}
LookupStatuses == {200, 500}

ErrorBody(status) == [code |-> status, message |-> "error"]

(* The fields of the record documented in RETURN. *)
NormalizedFields ==
    {"created", "fingerprint", "href", "id", "key", "label", "updated"}

(* Shapes of the raw body the provider answers a write with: the documented *)
(* fields, these and one more, or one of them left out.                     *)
RawShapes == {"documented", "extra", "partial"}

RawResponse(rec, shape) ==
    IF shape = "extra" THEN rec @@ [user |-> "u1"]
    ELSE IF shape = "partial"
    THEN [f \in (DOMAIN rec) \ {"href"} |-> rec[f]]
    ELSE rec

(* The id the provider gives a new key; 0 when the id space is used up. *)
FreshId(keys) ==
    IF \E i \in Ids : \A k \in keys : k.id # i
    THEN CHOOSE i \in Ids :
            /\ \A k \in keys : k.id # i
            /\ \A j \in Ids : (\A k \in keys : k.id # j) => i <= j
    ELSE 0

(* The provider applying POST ssh-keys with label and key. *)
ProviderPost(keys, label, pkey) ==
    keys \cup {KeyRecord(FreshId(keys), label[1], pkey[1])}

(* The provider applying PUT ssh-keys/{id}: only supplied fields change. *)
ProviderPutRecord(k, label, pkey) ==
    KeyRecord(k.id,
              IF label = None THEN k.label ELSE label[1],
              IF pkey = None THEN k.key ELSE pkey[1])

ProviderPut(keys, id, label, pkey) ==
    {IF k.id = id THEN ProviderPutRecord(k, label, pkey) ELSE k : k \in keys}

(* The provider applying DELETE ssh-keys/{id}. *)
ProviderDelete(keys, id) == {k \in keys : k.id # id}

----------------------------------------------------------------------------
(* AnsibleModule.exit_json / fail_json: both end the process. *)

exit_json(changed, record) ==
    [status |-> "exit", changed |-> changed, record |-> record, msg |-> None]

(* A value interpolated into a message: what it is and the value. *)
Embedded(what, value) == <<what, value>>

fail_json(text, args) ==
    [status |-> "fail", changed |-> FALSE, record |-> None,
     msg |-> Some([text |-> text, args |-> args])]

(* Mutant: fail_json reports the failure and returns to its caller. *)
Exit_fail_json_returns(res, reqs, keys) ==
    /\ pc' = IF res.status = "fail" THEN pc ELSE "done"
    /\ result' = res
    /\ requests' = reqs
    /\ remote' = keys
    /\ UNCHANGED <<params, check_mode, key, runs, remote0, prev, rm, diff>>

(* The invocation ends: result reported, requests sent, provider state. *)
Exit(res, reqs, keys) ==
    /\ pc' = "done"
    /\ result' = res
    /\ requests' = reqs
    /\ remote' = keys
    /\ UNCHANGED <<params, check_mode, key, runs, remote0, prev, rm, diff>>

Terminal(res, reqs, keys) == Exit(res, reqs, keys) /\ UNCHANGED lookup

----------------------------------------------------------------------------
(* common.find_resource_unique with constants.SSH_IDENTIFYING_KEYS:        *)
(* a key matches when any supplied identifying field equals its value.     *)

SSH_IDENTIFYING_KEYS == {"id", "fingerprint", "label"}

Matches(k, p) ==
    \/ ("id" \in SSH_IDENTIFYING_KEYS /\ p.id # None /\ k.id = p.id[1])
    \/ ("fingerprint" \in SSH_IDENTIFYING_KEYS /\ p.fingerprint # None
            /\ k.fingerprint = p.fingerprint[1])
    \/ ("label" \in SSH_IDENTIFYING_KEYS /\ p.label # None
            /\ k.label = p.label[1])

MatchingKeys(keys, p) == {k \in keys : Matches(k, p)}

(* Mutant: an ambiguous match is resolved to one of the keys. *)
find_resource_unique_first(matching) ==
    IF matching = {} THEN "none" ELSE "one"

(* What the lookup hands back for the matching keys: "fail" for an        *)
(* ambiguous match, else the single key or None.                           *)
find_resource_unique(matching) ==
    IF Cardinality(matching) > 1 THEN "fail"
    ELSE IF matching = {} THEN "none"
    ELSE "one"

----------------------------------------------------------------------------
(* sshkey.py *)

(* Mutant: the label is compared with the stored key material. *)
check_param_state_diff_label_vs_key(module_params, current_state) ==
    IF module_params.label # None
          /\ module_params.label[1] # current_state.key
    THEN TRUE
    ELSE IF module_params.public_key # None
               /\ module_params.public_key[1] # current_state.key
    THEN TRUE
    ELSE FALSE

(* Mutant: the label test lacks `is not None`. *)
check_param_state_diff_no_none_test(module_params, current_state) ==
    IF module_params.label # Some(current_state.label)
    THEN TRUE
    ELSE IF module_params.public_key # None
               /\ module_params.public_key[1] # current_state.key
    THEN TRUE
    ELSE FALSE

check_param_state_diff(module_params, current_state) ==
    IF module_params.label # None
          /\ module_params.label[1] # current_state.label
    THEN TRUE
    ELSE IF module_params.public_key # None
               /\ module_params.public_key[1] # current_state.key
    THEN TRUE
    ELSE FALSE

(* Mutant: the label is sent as the key material. *)
write_kwargs_label_as_key(module_params) ==
    [label |-> module_params.label, key |-> module_params.label]

(* Keyword arguments create_key and update_key pass to send_request. *)
write_kwargs(module_params) ==
    [label |-> module_params.label, key |-> module_params.public_key]

NoKwargs == [x \in {} |-> None]

create_key_status_ok(status) == status = 201

(* Mutant: an update answered 200 is accepted as well. *)
update_key_status_ok_200(status) == status \in {200, 201}

update_key_status_ok(status) == status = 201

(* Mutant: a delete answered 200 is accepted as well. *)
delete_key_status_ok_200(status) == status \in {200, 204}

delete_key_status_ok(status) == status = 204

(* create_key after the validation and the check-mode exit. *)
create_key_request(module_params) ==
    \E status \in WriteStatuses, shape \in RawShapes :
        LET kw == write_kwargs(module_params)
            applied == status \in SuccessClass
            created == KeyRecord(FreshId(remote), kw.label[1], kw.key[1])
            resp == IF applied THEN RawResponse(created, shape)
                    ELSE ErrorBody(status)
        IN  /\ applied => FreshId(remote) # 0
            /\ Terminal(
                 IF ~create_key_status_ok(status)
                 THEN fail_json("Failed to create SSH key: ",
                                <<Embedded("resp", resp)>>)
                 ELSE exit_json(TRUE, Some(resp)),
                 Append(requests,
                        Request("POST", <<"ssh-keys">>, kw, status, resp)),
                 IF applied THEN ProviderPost(remote, kw.label, kw.key)
                 ELSE remote)

(* Mutant: no check-mode exit. *)
create_key_no_check_mode(module_params, module_check_mode) ==
    IF module_params.label = None \/ module_params.public_key = None
    THEN Terminal(
           fail_json("Label and public key are required for creating SSH keys.",
                     << >>),
           requests, remote)
    ELSE create_key_request(module_params)

(* Mutant: the check-mode exit comes before the validation. *)
create_key_check_mode_first(module_params, module_check_mode) ==
    IF module_check_mode
    THEN Terminal(exit_json(TRUE, None), requests, remote)
    ELSE IF module_params.label = None \/ module_params.public_key = None
    THEN Terminal(
           fail_json("Label and public key are required for creating SSH keys.",
                     << >>),
           requests, remote)
    ELSE create_key_request(module_params)

create_key(module_params, module_check_mode) ==
    IF module_params.label = None \/ module_params.public_key = None
    THEN Terminal(
           fail_json("Label and public key are required for creating SSH keys.",
                     << >>),
           requests, remote)
    ELSE IF module_check_mode
    THEN Terminal(exit_json(TRUE, None), requests, remote)
    ELSE create_key_request(module_params)

(* update_key after the check-mode exit. *)
update_key_request(module_params, key_id) ==
    \E status \in WriteStatuses, shape \in RawShapes :
        LET kw == write_kwargs(module_params)
            applied == status \in SuccessClass
            keys == IF applied THEN ProviderPut(remote, key_id, kw.label, kw.key)
                    ELSE remote
            resp == IF applied
                    THEN RawResponse(CHOOSE k \in keys : k.id = key_id, shape)
                    ELSE ErrorBody(status)
        IN  /\ applied => \E k \in remote : k.id = key_id
            /\ Terminal(
                 IF ~update_key_status_ok(status)
                 THEN fail_json("Failed to update SSH key: ",
                                <<Embedded("resp", resp)>>)
                 ELSE exit_json(TRUE, Some(resp)),
                 Append(requests,
                        Request("PUT", <<"ssh-keys", key_id>>, kw, status, resp)),
                 keys)

update_key(module_params, module_check_mode, key_id) ==
    IF module_check_mode
    THEN Terminal(exit_json(TRUE, None), requests, remote)
    ELSE update_key_request(module_params, key_id)

(* Mutant: a rejected DELETE is sent a second time. *)
delete_key_request_retry(found) ==
    \E status \in WriteStatuses, again \in WriteStatuses :
        LET key_id == found.id
            applied == status \in SuccessClass \/ again \in SuccessClass
            resp == IF status \in SuccessClass THEN None ELSE ErrorBody(status)
            sent == Append(requests, Request("DELETE", <<"ssh-keys", key_id>>,
                                             NoKwargs, status, resp))
        IN  IF delete_key_status_ok(status)
            THEN Terminal(exit_json(TRUE, None), sent,
                          ProviderDelete(remote, key_id))
            ELSE Terminal(
                   IF ~delete_key_status_ok(again)
                   THEN fail_json("Failed to delete SSH key: ",
                                  <<Embedded("key_id", key_id)>>)
                   ELSE exit_json(TRUE, None),
                   Append(sent, Request("DELETE", <<"ssh-keys", key_id>>,
                                        NoKwargs, again, None)),
                   IF applied THEN ProviderDelete(remote, key_id) ELSE remote)

(* delete_key after the check-mode exit. *)
delete_key_request(found) ==
    \E status \in WriteStatuses :
        LET key_id == found.id
            applied == status \in SuccessClass
            resp == IF applied THEN None ELSE ErrorBody(status)
        IN  Terminal(
              IF ~delete_key_status_ok(status)
              THEN fail_json("Failed to delete SSH key: ",
                             <<Embedded("key_id", key_id)>>)
              ELSE exit_json(TRUE, None),
              Append(requests, Request("DELETE", <<"ssh-keys", key_id>>,
                                       NoKwargs, status, resp)),
              IF applied THEN ProviderDelete(remote, key_id) ELSE remote)

delete_key(module_check_mode, found) ==
    IF module_check_mode
    THEN Terminal(exit_json(TRUE, None), requests, remote)
    ELSE delete_key_request(found)

(* Mutant: the no-op on a found key returns the record in check mode too. *)
exit_present_unchanged_record(module_check_mode, found) ==
    exit_json(FALSE, Some(found))

(* The exits run_module makes itself. *)
exit_present_unchanged(module_check_mode, found) ==
    IF module_check_mode
    THEN exit_json(FALSE, None)
    ELSE exit_json(FALSE, Some(found))

(* Mutant: the no-op on an absent key reports a change. *)
exit_absent_unchanged_true == exit_json(TRUE, None)

exit_absent_unchanged == exit_json(FALSE, None)

----------------------------------------------------------------------------
(* The steps of run_module. *)

Finished ==
    [ran |-> TRUE, check_mode |-> check_mode, lookup |-> lookup,
     result |-> result, requests |-> requests, remote0 |-> remote0]

NoPrev ==
    [ran |-> FALSE, check_mode |-> FALSE, lookup |-> "pending",
     result |-> NoResult,
     requests |-> << >>, remote0 |-> {}]

(* The playbook applies the task: AnsibleModule(argument_spec, ...). *)
Start ==
    /\ pc \in {"idle", "done"}
    /\ runs < MaxRuns
    /\ \E cm \in BOOLEAN : check_mode' = cm
    /\ prev' = IF pc = "done" THEN Finished ELSE NoPrev
    /\ pc' = "lookup"
    /\ key' = NoKey
    /\ lookup' = "pending"
    /\ requests' = << >>
    /\ result' = NoResult
    /\ runs' = runs + 1
    /\ remote0' = remote
    /\ UNCHANGED <<remote, params, rm, diff>>

(* key = common.find_resource_unique(...) *)
FindResourceUnique ==
    /\ pc = "lookup"
    /\ \E status \in LookupStatuses :
        LET body == IF status = 200 THEN remote ELSE ErrorBody(status)
            reqs == Append(requests,
                           Request("GET", <<"ssh-keys">>, NoKwargs, status,
                                   body))
            matching == MatchingKeys(remote, params)
            found == find_resource_unique(matching)
        IN  IF status # 200
            THEN /\ Exit(fail_json("Failed to get resources: ",
                                   <<Embedded("status", status),
                                     Embedded("resp", body)>>),
                         reqs, remote)
                 /\ lookup' = "error"
            ELSE IF found = "fail"
            THEN /\ Exit(fail_json("Multiple matching resources found.", << >>),
                         reqs, remote)
                 /\ lookup' = "ambiguous"
            ELSE /\ pc' = "dispatch"
                 /\ key' = IF found = "one"
                           THEN Some(CHOOSE k \in matching : TRUE)
                           ELSE NoKey
                 /\ lookup' = found
                 /\ requests' = reqs
                 /\ UNCHANGED <<remote, params, check_mode, result, runs,
                                remote0, prev, rm, diff>>

(* Mutant: the update addresses the declared id when one is declared. *)
UpdateKey_declared_id ==
    /\ pc = "dispatch"
    /\ params.state = "present"
    /\ key # NoKey
    /\ check_param_state_diff(params, key[1])
    /\ update_key(params, check_mode,
                  IF params.id # None THEN params.id[1] ELSE key[1].id)

UpdateKey ==
    /\ pc = "dispatch"
    /\ params.state = "present"
    /\ key # NoKey
    /\ check_param_state_diff(params, key[1])
    /\ update_key(params, check_mode, key[1].id)

ExitPresentUnchanged ==
    /\ pc = "dispatch"
    /\ params.state = "present"
    /\ key # NoKey
    /\ ~check_param_state_diff(params, key[1])
    /\ Terminal(exit_present_unchanged(check_mode, key[1]), requests, remote)

CreateKey ==
    /\ pc = "dispatch"
    /\ params.state = "present"
    /\ key = NoKey
    /\ create_key(params, check_mode)

DeleteKey ==
    /\ pc = "dispatch"
    /\ params.state = "absent"
    /\ key # NoKey
    /\ delete_key(check_mode, key[1])

ExitAbsentUnchanged ==
    /\ pc = "dispatch"
    /\ params.state = "absent"
    /\ key = NoKey
    /\ Terminal(exit_absent_unchanged, requests, remote)

NoCall == [pc |-> "idle"]

Init ==
    /\ rm = NoCall
    /\ diff = NoCall
    /\ remote \in RemoteSets
    /\ params \in get_module_args
    /\ check_mode = FALSE
    /\ pc = "idle"
    /\ key = NoKey
    /\ lookup = "pending"
    /\ requests = << >>
    /\ result = NoResult
    /\ runs = 0
    /\ remote0 = remote
    /\ prev = NoPrev

Next ==
    \/ Start
    \/ FindResourceUnique
    \/ UpdateKey
    \/ ExitPresentUnchanged
    \/ CreateKey
    \/ DeleteKey
    \/ ExitAbsentUnchanged

Spec == Init /\ [][Next]_vars

(* One invocation of run_module, from any parameters and any remote keys.  *)
(* run_module is synchronous: the lookup returns, and the branch it leads  *)
(* to runs to its exit_json or fail_json.                                  *)
Dispatch ==
    \/ UpdateKey
    \/ ExitPresentUnchanged
    \/ CreateKey
    \/ DeleteKey
    \/ ExitAbsentUnchanged

StartOnce == pc = "idle" /\ Start

NextOnce ==
    \/ StartOnce
    \/ FindResourceUnique
    \/ Dispatch

FairSpec ==
    /\ Init
    /\ [][NextOnce]_vars
    /\ WF_vars(FindResourceUnique)
    /\ WF_vars(Dispatch)

----------------------------------------------------------------------------
(* resource_manager.py: one call of a ResourceManager operation on a       *)
(* concrete resource type.                                                 *)

MaxListLen == 2   \* records in the body of a by-project GET

Operations ==
    {"get_by_id", "get_by_project_id", "post_by_id", "put_by_id", "delete_by_id"}

ResourceNames == {"ssh key", "server"}

(* RequestTemplate: url_template, timeout, valid_status_codes. *)
RequestTemplate(url_template, timeout, valid_status_codes) ==
    [url_template |-> url_template, timeout |-> timeout,
     valid_status_codes |-> valid_status_codes]

(* The url templates a concrete manager or a caller can hand in, and the   *)
(* replacement fields each one holds.                                      *)
UrlTemplates == {"ssh-keys/{id}", "projects/{project_id}/ssh-keys", "ssh-keys"}

Placeholders(url_template) ==
    IF url_template = "ssh-keys/{id}" THEN {"id"}
    ELSE IF url_template = "projects/{project_id}/ssh-keys" THEN {"project_id"}
    ELSE {}

RequestTemplates ==
    {RequestTemplate(url, 30, codes) :
        url \in UrlTemplates,
        codes \in {{200}, {201}, {204}, {200, 201}}}

(* The keyword each operation passes to str.format. *)
FormatKeyword(op) == IF op = "get_by_project_id" THEN "project_id" ELSE "id"

(* str.format(keyword=value) raises KeyError when the template holds a     *)
(* replacement field other than the keyword.                               *)
FormatRaises(url_template, keyword) ==
    Placeholders(url_template) \ {keyword} # {}

(* str.format on a url template: the template and the value filled in; a   *)
(* template without replacement fields is returned as it is.               *)
Format(url_template, keyword, value) ==
    IF keyword \in Placeholders(url_template)
    THEN <<url_template, keyword, value>>
    ELSE <<url_template>>

ResponseStatuses == {200, 201, 204, 404}

(* Raw bodies of a single-resource response and of a by-project GET. *)
RawRecords ==
    {RawResponse(KeyRecord(i, "k1", "ssh-a"), shape) :
        i \in Ids, shape \in RawShapes}

RECURSIVE SeqsUpTo(_, _)
SeqsUpTo(S, n) ==
    IF n = 0 THEN {<< >>}
    ELSE SeqsUpTo(S, n - 1)
            \cup {Append(q, x) : q \in {r \in SeqsUpTo(S, n - 1) : Len(r) = n - 1},
                                 x \in S}

RawLists == SeqsUpTo(RawRecords, MaxListLen)

(* The concrete type's _normalize: the canonical fields of the raw dict.   *)
_normalize(resource) ==
    [f \in NormalizedFields |->
        IF f \in DOMAIN resource THEN Some(resource[f]) ELSE None]

(* Mutant: the status code and the operation change places. *)
_build_api_error_msg_swapped(name, operation, status_code, response) ==
    [text |-> "error {} on attempt to {} for {}: {}",
     status_code |-> status_code, operation |-> name, name |-> operation,
     response |-> response]

_build_api_error_msg(name, operation, status_code, response) ==
    [text |-> "error {} on attempt to {} for {}: {}",
     status_code |-> status_code, operation |-> operation, name |-> name,
     response |-> response]

RmCalls ==
    [pc : {"called"},
     op : Operations,
     name : ResourceNames,
     resource_id : Ids,
     request_templ : RequestTemplates,
     request_params : {write_kwargs(p) :
                          p \in {q \in get_module_args :
                                    q.state = "present" /\ q.id = None
                                    /\ q.fingerprint = None
                                    /\ q.public_key = None}},
     requests : {<< >>},
     returned : {None},
     msg : {None}]

(* The url cannot be built: KeyError leaves the operation before            *)
(* send_request, nothing is sent, fail_json is not called.                 *)
RmRaise ==
    /\ FormatRaises(rm.request_templ.url_template, FormatKeyword(rm.op))
    /\ rm' = [rm EXCEPT !.pc = "raised"]
    /\ UNCHANGED <<module_vars, diff>>

(* send_request, then the status test, then fail_json or the return value. *)
RmAnswer(method, kwargs, status, resp, value) ==
    /\ ~FormatRaises(rm.request_templ.url_template, FormatKeyword(rm.op))
    /\ rm' = [rm EXCEPT
                !.requests = Append(@,
                    Request(method,
                            Format(rm.request_templ.url_template,
                                   FormatKeyword(rm.op), rm.resource_id),
                            kwargs, status, resp)),
                !.pc = IF status \notin rm.request_templ.valid_status_codes
                       THEN "failed" ELSE "returned",
                !.msg = IF status \notin rm.request_templ.valid_status_codes
                        THEN Some(_build_api_error_msg(rm.name, method, status,
                                                       resp))
                        ELSE None,
                !.returned = IF status \notin rm.request_templ.valid_status_codes
                             THEN None ELSE value]
    /\ UNCHANGED <<module_vars, diff>>

get_by_id ==
    /\ rm.pc = "called"
    /\ rm.op = "get_by_id"
    /\ \/ RmRaise
       \/ \E status \in ResponseStatuses, raw \in RawRecords :
            LET resp == IF status \in SuccessClass THEN raw
                        ELSE ErrorBody(status)
            IN  RmAnswer("GET", NoKwargs, status, resp, Some(_normalize(resp)))

get_by_project_id ==
    /\ rm.pc = "called"
    /\ rm.op = "get_by_project_id"
    /\ \/ RmRaise
       \/ \E status \in ResponseStatuses, raws \in RawLists :
            IF status \in SuccessClass
            THEN RmAnswer("GET", NoKwargs, status, raws,
                          Some([i \in 1..Len(raws) |-> _normalize(raws[i])]))
            ELSE RmAnswer("GET", NoKwargs, status, ErrorBody(status), None)

post_by_id ==
    /\ rm.pc = "called"
    /\ rm.op = "post_by_id"
    /\ \/ RmRaise
       \/ \E status \in ResponseStatuses, raw \in RawRecords :
            LET resp == IF status \in SuccessClass THEN raw
                        ELSE ErrorBody(status)
            IN  RmAnswer("POST", rm.request_params, status, resp,
                         Some(_normalize(resp)))

put_by_id ==
    /\ rm.pc = "called"
    /\ rm.op = "put_by_id"
    /\ \/ RmRaise
       \/ \E status \in ResponseStatuses, raw \in RawRecords :
            LET resp == IF status \in SuccessClass THEN raw
                        ELSE ErrorBody(status)
            IN  RmAnswer("PUT", rm.request_params, status, resp,
                         Some(_normalize(resp)))

delete_by_id ==
    /\ rm.pc = "called"
    /\ rm.op = "delete_by_id"
    /\ \/ RmRaise
       \/ \E status \in ResponseStatuses :
            LET resp == IF status \in SuccessClass THEN None
                        ELSE ErrorBody(status)
            IN  RmAnswer("DELETE", NoKwargs, status, resp, None)

(* The module's variables while a helper is exercised on its own. *)
ModuleIdle ==
    /\ remote = {}
    /\ params = [state |-> "present", label |-> None, public_key |-> None,
                 id |-> None, fingerprint |-> None]
    /\ check_mode = FALSE
    /\ pc = "idle"
    /\ key = NoKey
    /\ lookup = "pending"
    /\ requests = << >>
    /\ result = NoResult
    /\ runs = 0
    /\ remote0 = {}
    /\ prev = NoPrev

InitRM ==
    /\ ModuleIdle
    /\ diff = NoCall
    /\ rm \in RmCalls

NextRM ==
    \/ get_by_id
    \/ get_by_project_id
    \/ post_by_id
    \/ put_by_id
    \/ delete_by_id

SpecRM == InitRM /\ [][NextRM]_vars

----------------------------------------------------------------------------
(* check_param_state_diff called on its own, on any parameters and any     *)
(* stored key.                                                             *)

DiffCalls ==
    [pc : {"called"},
     module_params : get_module_args,
     current_state : KeyRecords,
     returned : {FALSE}]

CheckParamStateDiff ==
    /\ diff.pc = "called"
    /\ diff' = [diff EXCEPT
                  !.pc = "returned",
                  !.returned = check_param_state_diff(diff.module_params,
                                                      diff.current_state)]
    /\ UNCHANGED <<module_vars, rm>>

InitDiff ==
    /\ ModuleIdle
    /\ rm = NoCall
    /\ diff \in DiffCalls

NextDiff == CheckParamStateDiff

SpecDiff == InitDiff /\ [][NextDiff]_vars

----------------------------------------------------------------------------
(* Vocabulary of the properties. *)

Methods(reqs) == [i \in 1..Len(reqs) |-> reqs[i].method]

Succeeded(res) == res.status = "exit"
Failed(res) == res.status = "fail"

(* No supplied label or public_key differs from the stored key. *)
NoDeclaredFieldDiffers(p, k) ==
    /\ (p.label = None \/ p.label = Some(k.label))
    /\ (p.public_key = None \/ p.public_key = Some(k.key))

BothSupplied(p) == p.label # None /\ p.public_key # None

(* The write of the invocation: its second request, after the lookup. *)
OneWrite(reqs, method, path) ==
    /\ Len(reqs) = 2
    /\ reqs[1].method = "GET"
    /\ reqs[2].method = method
    /\ reqs[2].path = path

----------------------------------------------------------------------------
(* C1: idempotence.  When two invocations in sequence with the same        *)
(* parameters, neither in check mode, both succeed, the second reports     *)
(* changed=false, and it sends no POST or PUT for state=present and no     *)
(* DELETE for state=absent.                                                *)
TwoRealRunsSucceeded ==
    /\ pc = "done"
    /\ prev.ran
    /\ ~prev.check_mode
    /\ ~check_mode
    /\ Succeeded(prev.result)
    /\ Succeeded(result)

C1_Idempotent ==
    TwoRealRunsSucceeded =>
        /\ result.changed = FALSE
        /\ params.state = "present" =>
              \A i \in 1..Len(requests) : requests[i].method \notin {"POST", "PUT"}
        /\ params.state = "absent" =>
              \A i \in 1..Len(requests) : requests[i].method # "DELETE"

C1_Witness ==
    /\ TwoRealRunsSucceeded
    /\ prev.result.changed
    /\ Methods(prev.requests) = <<"GET", "PUT">>
    /\ ~result.changed

(* C2 as stated: with state=present and no key found, an invocation not in *)
(* check mode always ends with changed=true and the created record, after  *)
(* a POST answered 201.                                                    *)
CreateCase ==
    /\ pc = "done"
    /\ params.state = "present"
    /\ lookup = "none"
    /\ ~check_mode

CreatedAsDeclared ==
    /\ Succeeded(result)
    /\ result.changed
    /\ result.record # None
    /\ Some(result.record[1].label) = params.label
    /\ Some(result.record[1].key) = params.public_key

C2_Original ==
    CreateCase =>
        /\ OneWrite(requests, "POST", <<"ssh-keys">>)
        /\ requests[2].status = 201
        /\ CreatedAsDeclared

(* C2, amended: with label and public_key both supplied, the invocation    *)
(* sends one POST to ssh-keys carrying the declared label and key, and     *)
(* when that POST is answered 201 it ends with changed=true and a created  *)
(* record whose label and key are the declared ones.                       *)
C2_CreateWhenSupplied ==
    (CreateCase /\ BothSupplied(params)) =>
        /\ OneWrite(requests, "POST", <<"ssh-keys">>)
        /\ requests[2].kwargs.label = params.label
        /\ requests[2].kwargs.key = params.public_key
        /\ requests[2].status = 201 => CreatedAsDeclared

C2_Witness ==
    /\ CreateCase
    /\ BothSupplied(params)
    /\ requests[2].status = 201
    /\ CreatedAsDeclared
    /\ \E k \in remote : k.id = result.record[1].id /\ k.id = FreshId(remote0)

(* C3: with state=present, exactly one key found and no supplied label or  *)
(* public_key differing from it, the invocation ends with changed=false    *)
(* and has sent no POST, PUT or DELETE.                                    *)
C3_NoDiffNoChange ==
    (/\ pc = "done"
     /\ params.state = "present"
     /\ lookup = "one"
     /\ NoDeclaredFieldDiffers(params, key[1]))
    => /\ Succeeded(result)
       /\ result.changed = FALSE
       /\ Mutating(requests) = {}

C3_Witness ==
    /\ pc = "done"
    /\ params.state = "present"
    /\ lookup = "one"
    /\ params.label = None
    /\ params.public_key = Some(key[1].key)
    /\ Succeeded(result)
    /\ ~result.changed

(* C4: with state=absent and no key found, the invocation succeeds with    *)
(* changed=false, returns no record and has sent no mutating request.      *)
C4_AbsentNotFound ==
    (pc = "done" /\ params.state = "absent" /\ lookup = "none") =>
        /\ Succeeded(result)
        /\ result.changed = FALSE
        /\ result.record = None
        /\ Mutating(requests) = {}

C4_Witness ==
    /\ pc = "done"
    /\ params.state = "absent"
    /\ lookup = "none"
    /\ remote # {}
    /\ Succeeded(result)

(* C5: in check mode no POST, PUT or DELETE is ever sent, whatever the     *)
(* desired state, the lookup result and the diff; the lookup GET is sent.  *)
C5_CheckModeNeverMutates ==
    check_mode =>
        /\ Mutating(requests) = {}
        /\ pc \in {"dispatch", "done"} => Methods(requests) = <<"GET">>

C5_Witness ==
    /\ check_mode
    /\ pc = "done"
    /\ Succeeded(result)
    /\ result.changed
    /\ params.state = "present"
    /\ lookup = "none"
    /\ Methods(requests) = <<"GET">>

(* C6 as stated: a check-mode run and a real run on the same parameters    *)
(* and the same remote keys report the same changed value: whenever one    *)
(* ends with changed=v so does the other, whatever the provider answers    *)
(* to the write.  (Both lookups were answered 200.)                        *)
CheckAndRealRun ==
    /\ pc = "done"
    /\ prev.ran
    /\ prev.check_mode # check_mode
    /\ prev.remote0 = remote0
    /\ prev.lookup # "error"
    /\ lookup # "error"

CheckRun == IF check_mode THEN result ELSE prev.result
RealRun == IF check_mode THEN prev.result ELSE result
RealRequests == IF check_mode THEN prev.requests ELSE requests

SameChanged(a, b) ==
    Succeeded(a) => (Succeeded(b) /\ b.changed = a.changed)

C6_Original ==
    CheckAndRealRun =>
        /\ SameChanged(CheckRun, RealRun)
        /\ SameChanged(RealRun, CheckRun)

(* The real run failed on the answer to its write request. *)
RealWriteRejected ==
    /\ Failed(RealRun)
    /\ Len(RealRequests) = 2
    /\ RealRequests[2].method \in MutatingMethods
    /\ RealRequests[2].status #
          (IF RealRequests[2].method = "DELETE" THEN 204 ELSE 201)

(* C6, amended: when the real run ends with changed=v the check-mode run   *)
(* ends with changed=v too; when the check-mode run ends with changed=v    *)
(* the real run ends with changed=v unless the provider answered its       *)
(* write request with a status other than the accepted one, in which case  *)
(* it fails.                                                               *)
C6_SameChangedUnlessRejected ==
    CheckAndRealRun =>
        /\ SameChanged(RealRun, CheckRun)
        /\ Succeeded(CheckRun) =>
              \/ (Succeeded(RealRun) /\ RealRun.changed = CheckRun.changed)
              \/ RealWriteRejected

C6_Witness ==
    /\ CheckAndRealRun
    /\ Succeeded(CheckRun)
    /\ Succeeded(RealRun)
    /\ CheckRun.changed
    /\ RealRun.changed
    /\ Len(RealRequests) = 2

(* C7: when the lookup matches two or more keys the invocation fails and   *)
(* sends no POST, PUT or DELETE at any point.                              *)
C7_AmbiguousFailsFirst ==
    Cardinality(MatchingKeys(remote0, params)) >= 2 =>
        /\ Mutating(requests) = {}
        /\ pc = "done" => Failed(result)
        /\ pc # "dispatch"

C7_Witness ==
    /\ Cardinality(MatchingKeys(remote0, params)) >= 2
    /\ pc = "done"
    /\ lookup = "ambiguous"
    /\ Failed(result)
    /\ ~check_mode

(* C8 as stated: the validation error of a create without label or         *)
(* public_key is reported before any request, the lookup GET included,     *)
(* has been sent.                                                          *)
ValidationCase ==
    /\ pc = "done"
    /\ params.state = "present"
    /\ lookup = "none"
    /\ ~BothSupplied(params)

C8_Original ==
    ValidationCase => (Failed(result) /\ requests = << >>)

(* C8, amended: the validation error is reported after the lookup GET and  *)
(* before any mutating request: when the failure is reported the lookup    *)
(* GET is the only request that has been sent.                             *)
C8_ValidationBeforeWrite ==
    ValidationCase =>
        /\ Failed(result)
        /\ result.msg[1].text =
              "Label and public key are required for creating SSH keys."
        /\ Methods(requests) = <<"GET">>

C8_Witness ==
    /\ ValidationCase
    /\ Failed(result)
    /\ check_mode
    /\ params.label # None
    /\ params.public_key = None

(* C9: with state=absent and exactly one key found, not in check mode, the *)
(* invocation sends exactly one DELETE to ssh-keys/{id}; it ends with      *)
(* changed=true and no record if and only if the answer is 204, and fails  *)
(* for every other status.                                                 *)
DeleteCase ==
    /\ pc = "done"
    /\ params.state = "absent"
    /\ lookup = "one"
    /\ ~check_mode

C9_DeleteOn204 ==
    DeleteCase =>
        /\ OneWrite(requests, "DELETE", <<"ssh-keys", key[1].id>>)
        /\ requests[2].status = 204 <=>
              (Succeeded(result) /\ result.changed /\ result.record = None)
        /\ requests[2].status # 204 <=> Failed(result)

C9_Witness ==
    /\ DeleteCase
    /\ requests[2].status = 204
    /\ Succeeded(result)
    /\ result.changed
    /\ key[1] \in remote0
    /\ key[1] \notin remote

(* C10: with state=present, exactly one key found and a supplied label or  *)
(* public_key differing from it, not in check mode, the invocation sends   *)
(* exactly one PUT to ssh-keys/{id}; it ends with changed=true and the     *)
(* updated record if and only if the answer is 201, and every other        *)
(* status, 200 and 204 included, is a failure.                             *)
UpdateCase ==
    /\ pc = "done"
    /\ params.state = "present"
    /\ lookup = "one"
    /\ ~NoDeclaredFieldDiffers(params, key[1])
    /\ ~check_mode

UpdatedRecord(rec) ==
    /\ rec.id = key[1].id
    /\ params.label # None => Some(rec.label) = params.label
    /\ params.public_key # None => Some(rec.key) = params.public_key
    /\ \E k \in remote : k.id = rec.id /\ k.label = rec.label /\ k.key = rec.key

C10_UpdateOn201 ==
    UpdateCase =>
        /\ OneWrite(requests, "PUT", <<"ssh-keys", key[1].id>>)
        /\ requests[2].status = 201 <=>
              (/\ Succeeded(result)
               /\ result.changed
               /\ result.record # None
               /\ UpdatedRecord(result.record[1]))
        /\ requests[2].status # 201 <=> Failed(result)

C10_Witness ==
    /\ UpdateCase
    /\ requests[2].status = 201
    /\ Succeeded(result)
    /\ result.changed
    /\ params.public_key = None
    /\ result.record[1].label # key[1].label
    /\ result.record[1].key = key[1].key

----------------------------------------------------------------------------
(* The invocation failed on the answer to its write request. *)
ApiFailure ==
    /\ pc = "done"
    /\ Failed(result)
    /\ Len(requests) = 2
    /\ requests[2].method \in MutatingMethods

(* The failure message embeds the value `value` of kind `what`. *)
Embeds(res, what, value) ==
    \E i \in 1..Len(res.msg[1].args) :
        /\ res.msg[1].args[i][1] = what
        /\ res.msg[1].args[i][2] = value

(* C11: every API failure (a create, update or delete answered with a     *)
(* status other than the accepted one) ends with a failure message that    *)
(* embeds both the response status code and the raw response body.         *)
C11_MessageHasStatusAndBody ==
    ApiFailure =>
        /\ Embeds(result, "status", requests[2].status)
        /\ Embeds(result, "resp", requests[2].body)

(* C12: over all successful exits, the result carries the                  *)
(* cherryservers_sshkey record if and only if state=present and the run is *)
(* not in check mode.                                                      *)
C12_RecordIffPresentAndReal ==
    (pc = "done" /\ Succeeded(result)) =>
        (result.record # None <=> (params.state = "present" /\ ~check_mode))

C12_Witness ==
    /\ pc = "done"
    /\ Succeeded(result)
    /\ params.state = "present"
    /\ check_mode
    /\ lookup = "one"
    /\ ~result.changed
    /\ result.record = None

(* C13: whenever the invocation succeeds with a record, the record has     *)
(* exactly the fields created, fingerprint, href, id, key, label, updated, *)
(* whatever the shape of the provider's raw response.                      *)
C13_RecordIsNormalized ==
    (pc = "done" /\ Succeeded(result) /\ result.record # None) =>
        DOMAIN result.record[1] = NormalizedFields

----------------------------------------------------------------------------
(* C14: each ResourceManager operation whose url template it can fill      *)
(* ({id}, or {project_id} for get_by_project_id, or no replacement field)  *)
(* sends exactly one request, to the filled url; when the status is not    *)
(* among the template's valid_status_codes it fails with                   *)
(* "error {status} on attempt to {operation} for {name}: {body}" and       *)
(* returns nothing; otherwise it returns the normalized response: a list   *)
(* of normalized records for get_by_project_id, nothing for delete_by_id.  *)
(* An operation ends without a response only when its template holds a    *)
(* replacement field it does not fill: then nothing is sent and nothing    *)
(* is reported.                                                            *)
RmFillable ==
    ~FormatRaises(rm.request_templ.url_template, FormatKeyword(rm.op))

RmMethod ==
    IF rm.op \in {"get_by_id", "get_by_project_id"} THEN "GET"
    ELSE IF rm.op = "post_by_id" THEN "POST"
    ELSE IF rm.op = "put_by_id" THEN "PUT"
    ELSE "DELETE"

RmStatus == rm.requests[1].status
RmBody == rm.requests[1].body

C14_ResourceManagerContract ==
    /\ rm.pc = "raised" =>
        /\ ~RmFillable
        /\ rm.requests = << >>
        /\ rm.msg = None
        /\ rm.returned = None
    /\ rm.pc \in {"failed", "returned"} =>
        /\ RmFillable
        /\ Len(rm.requests) = 1
        /\ rm.requests[1].method = RmMethod
        /\ rm.requests[1].path =
              IF Placeholders(rm.request_templ.url_template) = {}
              THEN <<rm.request_templ.url_template>>
              ELSE <<rm.request_templ.url_template, FormatKeyword(rm.op),
                     rm.resource_id>>
        /\ RmStatus \notin rm.request_templ.valid_status_codes =>
              /\ rm.pc = "failed"
              /\ rm.returned = None
              /\ rm.msg # None
              /\ rm.msg[1].text = "error {} on attempt to {} for {}: {}"
              /\ rm.msg[1].status_code = RmStatus
              /\ rm.msg[1].operation = RmMethod
              /\ rm.msg[1].name = rm.name
              /\ rm.msg[1].response = RmBody
        /\ RmStatus \in rm.request_templ.valid_status_codes =>
              /\ rm.pc = "returned"
              /\ rm.msg = None
              /\ rm.op \in {"get_by_id", "post_by_id", "put_by_id"} =>
                    /\ rm.returned # None
                    /\ DOMAIN rm.returned[1] = NormalizedFields
                    /\ \A f \in NormalizedFields \cap DOMAIN RmBody :
                          rm.returned[1][f] = Some(RmBody[f])
              /\ rm.op = "get_by_project_id" =>
                    /\ rm.returned # None
                    /\ Len(rm.returned[1]) = Len(RmBody)
                    /\ \A i \in 1..Len(RmBody) :
                          /\ DOMAIN rm.returned[1][i] = NormalizedFields
                          /\ rm.returned[1][i].id = Some(RmBody[i].id)
              /\ rm.op = "delete_by_id" => rm.returned = None

C14_Witness ==
    /\ rm.pc = "failed"
    /\ rm.op = "put_by_id"
    /\ rm.requests[1].path = <<"ssh-keys/{id}", "id", rm.resource_id>>
    /\ RmStatus = 200
    /\ rm.request_templ.valid_status_codes = {201}
    /\ rm.msg[1].status_code = 200

----------------------------------------------------------------------------
(* C15: every invocation sends at most one lookup (GET) request and at     *)
(* most one mutating (POST, PUT or DELETE) request.                        *)
C15_AtMostOneLookupOneWrite ==
    /\ Cardinality(Lookups(requests)) <= 1
    /\ Cardinality(Mutating(requests)) <= 1

C15_Witness ==
    /\ pc = "done"
    /\ Cardinality(Lookups(requests)) = 1
    /\ Cardinality(Mutating(requests)) = 1
    /\ Failed(result)
    /\ requests[2].method = "DELETE"

(* C19: the lookup completes before any mutating request, and every PUT or *)
(* DELETE goes to ssh-keys/{id} with id the id of the single record the    *)
(* lookup returned: never the declared id when the two differ, never a key *)
(* the lookup did not return.                                              *)
C19_WriteTargetsLookedUpKey ==
    \A i \in Mutating(requests) :
        /\ i > 1
        /\ requests[1].method = "GET"
        /\ requests[1].status = 200
        /\ requests[i].method \in {"PUT", "DELETE"} =>
              /\ lookup = "one"
              /\ MatchingKeys(remote0, params) = {key[1]}
              /\ requests[i].path = <<"ssh-keys", key[1].id>>
        /\ requests[i].method = "POST" => lookup = "none"

C19_Witness ==
    /\ pc = "done"
    /\ Methods(requests) = <<"GET", "PUT">>
    /\ params.id # None
    /\ params.id[1] # key[1].id
    /\ requests[2].path = <<"ssh-keys", key[1].id>>

----------------------------------------------------------------------------
(* C16: check_param_state_diff returns true if and only if the label is    *)
(* supplied and differs from the stored label, or the public_key is        *)
(* supplied and differs from the stored key; an unsupplied label or        *)
(* public_key never makes a diff, and neither does id, fingerprint or      *)
(* state.                                                                  *)
SuppliedAndDiffers(declared, stored) ==
    declared # None /\ declared # Some(stored)

C16_DiffRule ==
    diff.pc = "returned" =>
        (diff.returned <=>
            \/ SuppliedAndDiffers(diff.module_params.label,
                                  diff.current_state.label)
            \/ SuppliedAndDiffers(diff.module_params.public_key,
                                  diff.current_state.key))

C16_Witness ==
    /\ diff.pc = "returned"
    /\ ~diff.returned
    /\ diff.module_params.label = None
    /\ diff.module_params.public_key = Some(diff.current_state.key)
    /\ diff.module_params.id # None
    /\ diff.module_params.id # Some(diff.current_state.id)
    /\ diff.module_params.fingerprint # None
    /\ diff.module_params.fingerprint # Some(diff.current_state.fingerprint)
    /\ diff.module_params.state = "absent"

----------------------------------------------------------------------------
(* C17: every invocation terminates with exactly one terminal outcome, one *)
(* success result or one failure, and once an outcome has been reported    *)
(* the invocation sends no further request and reports nothing else.       *)
Reported == result.status \in {"exit", "fail"}

C17_OneTerminalOutcome ==
    /\ (pc = "lookup") ~> (pc = "done")
    /\ [](pc = "done" <=> Reported)
    /\ [][(Reported /\ pc' # "lookup") =>
             (result' = result /\ requests' = requests /\ pc' = "done")]_vars

C17_Witness ==
    /\ pc = "done"
    /\ Failed(result)
    /\ lookup = "error"
    /\ Len(requests) = 1
    /\ runs = 1

----------------------------------------------------------------------------
(* C18: when an update is triggered with only one of label / public_key    *)
(* supplied, the PUT carries only the supplied field, with its declared    *)
(* value; the unsupplied field is not sent as a request parameter.         *)
SentParameters(req) == DOMAIN req.kwargs

OnlyLabelSupplied == params.label # None /\ params.public_key = None
OnlyKeySupplied == params.label = None /\ params.public_key # None

C18_OnlySuppliedFieldSent ==
    \A i \in 1..Len(requests) :
        requests[i].method = "PUT" =>
            /\ OnlyLabelSupplied =>
                  /\ SentParameters(requests[i]) = {"label"}
                  /\ requests[i].kwargs.label = params.label
            /\ OnlyKeySupplied =>
                  /\ SentParameters(requests[i]) = {"key"}
                  /\ requests[i].kwargs.key = params.public_key

====
